---------------------------- MODULE Spec2Model ----------------------------
(***************************************************************************)
(* The rebuild cache of the @tailwindcss/postcss plugin (the `tailwindcss` *)
(* plugin creator and its OnceExit handler).  One cache entry per input    *)
(* identity holds the compiler handle, the recorded modification times,    *)
(* the last raw and optimized CSS and the paths that force a full rebuild. *)
(*                                                                         *)
(* OnceExit is an async function: it suspends only at its two              *)
(* `await createCompiler()` expressions (lines 119 and 193); everything    *)
(* between two suspension points runs as one step.  Each invocation is a   *)
(* process p with a position pc[p] and locals loc[p].                      *)
(*                                                                         *)
(* The compiler (compile/build/globs), the scanner and the optimizer are   *)
(* collaborators whose code is not part of the sources; they are modelled  *)
(* from their interface description as deterministic functions of the      *)
(* stylesheet text and the file system.  result.messages is empty when     *)
(* OnceExit starts (no earlier plugin has reported dependencies).          *)
(***************************************************************************)
EXTENDS Integers, Sequences, FiniteSets, TLC

\* ------------------------------------------------------------------ bounds
MaxPasses == 3      \* passes started in one behaviour
MaxTime   == 3      \* latest modification time the disk clock hands out

\* ------------------------------------------------------------ the universe
Procs  == {1, 2}                 \* concurrently running OnceExit invocations
Files  == {"a", "b"}             \* "a": the entry point, "b": an imported file
Inputs == {"a", ""}              \* result.opts.from ?? ''
NoEntry == 0                     \* statSync(...)?.mtimeMs ?? null  /  Map.get -> undefined
EmptyCss == 0                    \* the empty string ''; other CSS texts are 1, 2, ...

\* The stylesheet text handed to OnceExit: the imports compile() resolves, in
\* order; whether compilation then fails; the weight of its own rules.
Roots ==
  { [deps |-> << >>,    bad |-> FALSE, body |-> 0],
    [deps |-> <<"b">>,  bad |-> FALSE, body |-> 1],
    [deps |-> <<"b">>,  bad |-> TRUE,  body |-> 0] }

Options == {"false", "true"}     \* opts.optimize

NullCompiler == [id |-> 0, root |-> [deps |-> << >>, bad |-> FALSE, body |-> 0], deps |-> << >>]

VARIABLES
  disk,      \* file system: path -> modification time, NoEntry when missing
  now,       \* the latest modification time handed out
  sheet,     \* the stylesheet text the host hands to the next pass
  tokens,    \* the candidate tokens present in the scanned source tree (0 or 1)
  optimize,  \* the plugin option, fixed at construction
  from,      \* process -> result.opts.from ?? '' of its invocations
  keys,      \* the keys present in the DefaultMap `cache`
  cache,     \* input identity -> cache entry
  nextId,    \* number of compile() calls made so far (identity of handles)
  pc,        \* process -> "idle" | "setup" (await at line 119) | "recreate" (await at line 193)
  loc,       \* process -> locals of the invocation in flight
  started,   \* passes started so far
  hist,      \* per entry: history needed to state the properties
  last       \* the pass that ended in the latest step, NoPass when none did

vars == <<disk, now, sheet, tokens, optimize, from, keys, cache, nextId, pc, loc, started, hist, last>>

\* ---------------------------------------------------------- cache entries
NewEntry ==
  [ mtimes           |-> [f \in Files |-> NoEntry],
    compiler         |-> NullCompiler,
    css              |-> EmptyCss,
    optimizedCss     |-> EmptyCss,
    fullRebuildPaths |-> << >> ]

\* A map that runs the factory on every lookup.
GetAlwaysNew(key) == NewEntry

\* DefaultMap.get: the factory runs only for a key that is not in the map.
Get(key) == IF key \in keys THEN cache[key] ELSE NewEntry

\* ------------------------------------------------------------ collaborators
\* fs.statSync(file, { throwIfNoEntry: false })?.mtimeMs ?? null
Stat(file) == IF file \in Files THEN disk[file] ELSE NoEntry

\* handle.globs: the source globs the stylesheet declares
Globs(root) == root.body

\* scanner.scan(): a function of the source tree alone
Scan(globs) == tokens

\* scanner.files
ScanFiles(globs) == IF tokens > 0 THEN {"src"} ELSE {}

\* handle.build(candidates)
BuildThrows(handle, candidates) == handle.root.body = 1 /\ candidates = 1
Build(handle, candidates) == 2 * handle.root.body + candidates

\* compile(): it resolves the imports of the stylesheet in order, reporting
\* each one it has found, and fails on an import that is not on disk or, the
\* imports resolved, on a stylesheet that does not compile.
CompileReports(L) == L.pending # << >> /\ Stat(Head(L.pending)) # NoEntry
CompileThrows(L) ==
  \/ L.pending # << >> /\ Stat(Head(L.pending)) = NoEntry
  \/ L.pending = << >> /\ L.root.bad
CompileReturns(L) == L.pending = << >> /\ ~L.root.bad

\* lightningcss transform: never the identity on a non-empty text
Transform(css, minify) ==
  IF css = EmptyCss THEN EmptyCss ELSE IF minify THEN css + 10 ELSE css + 20


\* ------------------------------------------------------------------ locals
NoCss == -1                      \* nothing was appended to the PostCSS root

IdleLoc ==
  [ input      |-> "",           \* inputFile
    root       |-> NullCompiler.root,   \* root.toString()
    startId    |-> 0,            \* nextId when the pass started
    passNo     |-> 0,            \* ordinal of the pass on its entry
    hadHandle  |-> FALSE,        \* context.compiler was set when the pass started
    entryGone  |-> FALSE,        \* the entry point did not exist when the pass started
    unresolvable |-> FALSE,      \* the stylesheet of the pass cannot be compiled
    cssBefore  |-> EmptyCss,     \* context.css when the pass started
    optBefore  |-> EmptyCss,     \* context.optimizedCss when the pass started
    before     |-> NewEntry,     \* the entry when the pass started, kept when afterOk
    afterOk    |-> FALSE,        \* the pass started right after a pass on its entry emitted CSS
    afterFull  |-> FALSE,        \* ... and that pass was Full
    compileId  |-> 0,            \* identity of the handle compile() is creating
    pending    |-> << >>,        \* imports compile() has still to resolve
    reported   |-> << >>,        \* paths this compile() has passed to onDependency
    strategy   |-> "none",       \* rebuildStrategy, "none" before line 121
    candidates |-> 0,            \* scanner.scan()
    scanId     |-> 0,            \* the handle whose globs the scanner was given
    depFiles   |-> {},           \* result.messages of type 'dependency'
    depGlobs   |-> {},           \* result.messages of type 'dir-dependency'
    decideId   |-> 0,            \* the handle stored in the entry at the decide step
    entryMissing   |-> FALSE,    \* decide step: the entry point did not exist
    depMissing     |-> FALSE,    \* decide step: a tracked non-entry path did not exist
    othersSame     |-> FALSE,    \* decide step: every existing tracked path had its recorded time
    trackedChanged |-> FALSE,    \* decide step: an existing path of the handle changed since the last decide
    wasStable      |-> FALSE,    \* decide step: no file changed since the entry was created
    mtimesKept     |-> FALSE,    \* decide step: recorded times of missing paths were left alone
    log        |-> << >> ]       \* the calls made so far: "create", "scan", "build"

NoPass ==
  [ outcome      |-> "none",     \* "ok": CSS was emitted; "error": OnceExit threw
    failure      |-> "none",     \* what threw: "compile" or "build"
    pass         |-> IdleLoc,    \* the locals of the pass
    builtId      |-> 0,          \* the handle build() was called on, 0 when it was not called
    built        |-> NoCss,      \* what build() returned
    staleUpTo    |-> 0,          \* hist.staleUpTo when build() was called
    emitted      |-> NoCss,      \* the CSS appended to the PostCSS root
    ranOptimizer |-> FALSE,      \* optimizeCss was called
    css          |-> EmptyCss,   \* context.css when the pass ended
    optimizedCss |-> EmptyCss ]  \* context.optimizedCss when the pass ended

NewHist ==
  [ passes     |-> 0,            \* passes started on the entry
    changed    |-> {},           \* paths changed on disk since the entry's last decide step
    stable     |-> TRUE,         \* neither a file nor the stylesheet changed since the entry was created
    staleUpTo  |-> 0,            \* handles with id <= this were created before an observed
                                 \* change; 0 again once a handle created after it is stored
    okPasses   |-> 0,            \* passes that emitted CSS with optimization on, all with the
                                 \* same text: 0, 1, 2; 3 once the count is of no interest
    optCalls   |-> 0,            \* calls of optimizeCss in them
    allSame    |-> TRUE ]        \* they all built the same text

Range(seq) == {seq[k] : k \in 1..Len(seq)}

\* ------------------------------------------------ the decide step, 121-155
\* The loop with line 144 taken for every missing file.
RECURSIVE DecideLoopMissingForcesFull(_, _, _, _)
DecideLoopMissingForcesFull(files, inputFile, mtimes, strategy) ==
  IF files = << >> THEN [strategy |-> strategy, mtimes |-> mtimes]
  ELSE LET file == Head(files)
           changedTime == Stat(file)
       IN IF changedTime = NoEntry
          THEN DecideLoopMissingForcesFull(Tail(files), inputFile, mtimes, "full")
          ELSE IF mtimes[file] = changedTime
          THEN DecideLoopMissingForcesFull(Tail(files), inputFile, mtimes, strategy)
          ELSE DecideLoopMissingForcesFull(Tail(files), inputFile,
                                           [mtimes EXCEPT ![file] = changedTime], "full")

\* The loop without line 153: a changed time is not recorded.
RECURSIVE DecideLoopNoRecord(_, _, _, _)
DecideLoopNoRecord(files, inputFile, mtimes, strategy) ==
  IF files = << >> THEN [strategy |-> strategy, mtimes |-> mtimes]
  ELSE LET file == Head(files)
           changedTime == Stat(file)
       IN IF changedTime = NoEntry
          THEN DecideLoopNoRecord(Tail(files), inputFile, mtimes,
                                  IF file = inputFile THEN "full" ELSE strategy)
          ELSE IF mtimes[file] = changedTime
          THEN DecideLoopNoRecord(Tail(files), inputFile, mtimes, strategy)
          ELSE DecideLoopNoRecord(Tail(files), inputFile, mtimes, "full")

\* The loop without lines 143-145: a missing entry point is passed over.
RECURSIVE DecideLoopMissingTolerated(_, _, _, _)
DecideLoopMissingTolerated(files, inputFile, mtimes, strategy) ==
  IF files = << >> THEN [strategy |-> strategy, mtimes |-> mtimes]
  ELSE LET file == Head(files)
           changedTime == Stat(file)
       IN IF changedTime = NoEntry
          THEN DecideLoopMissingTolerated(Tail(files), inputFile, mtimes, strategy)
          ELSE IF mtimes[file] = changedTime
          THEN DecideLoopMissingTolerated(Tail(files), inputFile, mtimes, strategy)
          ELSE DecideLoopMissingTolerated(Tail(files), inputFile,
                                          [mtimes EXCEPT ![file] = changedTime], "full")

\* for (let file of files) { ... }   lines 140-154
RECURSIVE DecideLoop(_, _, _, _)
DecideLoop(files, inputFile, mtimes, strategy) ==
  IF files = << >> THEN [strategy |-> strategy, mtimes |-> mtimes]
  ELSE LET file == Head(files)
           changedTime == Stat(file)
       IN IF changedTime = NoEntry
          THEN DecideLoop(Tail(files), inputFile, mtimes,
                          IF file = inputFile THEN "full" ELSE strategy)
          ELSE IF mtimes[file] = changedTime
          THEN DecideLoop(Tail(files), inputFile, mtimes, strategy)
          ELSE DecideLoop(Tail(files), inputFile,
                          [mtimes EXCEPT ![file] = changedTime], "full")

\* lines 125-138: the dependency messages pushed for fullRebuildPaths, then inputFile
DecideFiles(context, inputFile) == context.fullRebuildPaths \o <<inputFile>>

\* createCompiler clearing the last output along with the paths.
CreateCompilerCallResetsOutput(context) ==
  [context EXCEPT !.fullRebuildPaths = << >>, !.css = EmptyCss, !.optimizedCss = EmptyCss]

\* lines 102-104 of createCompiler, up to the call of compile()
CreateCompilerCall(context) == [context EXCEPT !.fullRebuildPaths = << >>]

\* The gate without the comparison of the texts.
ShouldOptimizeAlways(css, context) == optimize # "false"

\* The gate with the comparison of the texts inverted.
ShouldOptimizeWhenSame(css, context) == css = context.css /\ optimize # "false"

\* line 201: css !== context.css && optimize
ShouldOptimize(css, context) == css # context.css /\ optimize # "false"

\* line 204: typeof optimize === 'object' ? optimize.minify : true
Minify == optimize = "true"

\* The emitted text taken from the optimized slot whatever the option.
EmittedOptimized(context) == context.optimizedCss

\* line 212: optimize ? context.optimizedCss : context.css
Emitted(context) == IF optimize # "false" THEN context.optimizedCss ELSE context.css


\* ------------------------------------------------- the pieces of OnceExit
\* Lines 121-190: the decide step and the scan, on the entry as it stands.
\* Yields the entry, the locals and the history after them.
DecideAndScan(context, L, h) ==
  LET inputFile == L.input
      files     == DecideFiles(context, inputFile)
      d         == DecideLoop(files, inputFile, context.mtimes, "incremental")
      tracked   == Range(files)
      ofHandle  == Range(context.compiler.deps) \cup {inputFile}
      observed  == \E f \in tracked \cap Files :
                      /\ Stat(f) # NoEntry
                      /\ context.mtimes[f] # NoEntry
                      /\ context.mtimes[f] # Stat(f)
  IN [ context |-> [context EXCEPT !.mtimes = d.mtimes],
       loc |-> [L EXCEPT
                  !.strategy   = d.strategy,
                  !.candidates = Scan(Globs(context.compiler.root)),
                  !.scanId     = context.compiler.id,
                  !.depFiles   = Range(context.fullRebuildPaths)
                                   \cup ScanFiles(Globs(context.compiler.root)),
                  !.depGlobs   = {Globs(context.compiler.root)},
                  !.decideId   = context.compiler.id,
                  !.entryMissing   = (Stat(inputFile) = NoEntry),
                  !.depMissing     = \E f \in tracked \ {inputFile} : Stat(f) = NoEntry,
                  !.othersSame     = \A f \in tracked \cap Files :
                                        Stat(f) # NoEntry => context.mtimes[f] = Stat(f),
                  !.trackedChanged = \E f \in h.changed \cap ofHandle : Stat(f) # NoEntry,
                  !.wasStable      = h.stable,
                  !.mtimesKept     = \A f \in Files :
                                        Stat(f) = NoEntry => d.mtimes[f] = context.mtimes[f],
                  !.log            = Append(@, "scan") ],
       hist |-> [h EXCEPT !.changed = {},
                          !.staleUpTo = IF observed THEN nextId ELSE @] ]

\* Lines 196-213: build on the stored handle, optimize when the text changed,
\* store and emit.  Yields the entry, the record of the finished pass and
\* the history.
BuildAndEmit(context, L, h) ==
  LET handle == context.compiler
      css    == Build(handle, L.candidates)
      run    == ShouldOptimize(css, context)
      B      == [L EXCEPT !.log = Append(@, "build")]
      after  == [context EXCEPT
                   !.optimizedCss = IF run THEN Transform(css, Minify) ELSE @,
                   !.css = css]
  IN IF BuildThrows(handle, L.candidates)
     THEN [ context |-> context,
            last |-> [ outcome |-> "error", failure |-> "build", pass |-> B,
                       builtId |-> handle.id, built |-> NoCss, staleUpTo |-> h.staleUpTo,
                       emitted |-> NoCss, ranOptimizer |-> FALSE,
                       css |-> context.css, optimizedCss |-> context.optimizedCss ],
            hist |-> h ]
     ELSE [ context |-> after,
            last |-> [ outcome |-> "ok", failure |-> "none", pass |-> B,
                       builtId |-> handle.id, built |-> css, staleUpTo |-> h.staleUpTo,
                       emitted |-> Emitted(after), ranOptimizer |-> run,
                       css |-> after.css, optimizedCss |-> after.optimizedCss ],
            hist |-> IF \/ h.okPasses >= 2
                        \/ optimize # "true"
                        \/ ~(h.allSame /\ (h.okPasses = 0 \/ css = context.css))
                     THEN [h EXCEPT !.okPasses = 3, !.optCalls = 0, !.allSame = FALSE]
                     ELSE [h EXCEPT !.okPasses = @ + 1,
                                    !.optCalls = IF run THEN @ + 1 ELSE @] ]

\* The pass is over for process p: the entry, the record and the history are stored.
Complete(p, i, r, id) ==
  /\ cache' = [cache EXCEPT ![i] = r.context]
  /\ hist' = [hist EXCEPT ![i] = r.hist]
  /\ last' = [r.last EXCEPT !.pass.pending = << >>, !.pass.reported = << >>,
                            !.pass.compileId = 0]
  /\ pc' = [pc EXCEPT ![p] = "idle"]
  /\ loc' = [loc EXCEPT ![p] = IdleLoc]
  /\ nextId' = id

\* createCompiler() is called and OnceExit suspends on its promise (at `at`).
Suspend(p, i, context, L, h, at) ==
  /\ cache' = [cache EXCEPT ![i] = CreateCompilerCall(context)]
  /\ hist' = [hist EXCEPT ![i] = h]
  /\ nextId' = nextId + 1
  /\ pc' = [pc EXCEPT ![p] = at]
  /\ loc' = [loc EXCEPT ![p] = [L EXCEPT !.compileId = nextId + 1,
                                         !.pending = L.root.deps,
                                         !.reported = << >>,
                                         !.log = Append(@, "create")]]
  /\ last' = NoPass

\* Lines 121-213 with the scan result unused and build() not called when the
\* strategy is Incremental: the CSS of the entry is emitted as it stands.
ContinueSkipsUnchanged(p, i, context, L, h) ==
  LET d == DecideAndScan(context, L, h)
  IN IF d.loc.strategy = "full"
     THEN Suspend(p, i, d.context, d.loc, d.hist, "recreate")
     ELSE Complete(p, i,
                   [ context |-> d.context,
                     last |-> [ outcome |-> "ok", failure |-> "none", pass |-> d.loc,
                                builtId |-> 0, built |-> NoCss,
                                staleUpTo |-> d.hist.staleUpTo,
                                emitted |-> Emitted(d.context), ranOptimizer |-> FALSE,
                                css |-> d.context.css,
                                optimizedCss |-> d.context.optimizedCss ],
                     hist |-> d.hist ],
                   nextId)

\* Lines 121-213 from a stored handle: decide and scan, then either suspend in
\* the recreation of line 193 or build and emit.
Continue(p, i, context, L, h) ==
  LET d == DecideAndScan(context, L, h)
  IN IF d.loc.strategy = "full"
     THEN Suspend(p, i, d.context, d.loc, d.hist, "recreate")
     ELSE Complete(p, i, BuildAndEmit(d.context, d.loc, d.hist), nextId)


\* OnceExit without line 119: it runs on with whatever the entry holds.
EnterWithoutSetup(p, i, context, L, h) == Continue(p, i, context, L, h)

\* Line 119, context.compiler ??= await createCompiler(): with no handle in
\* the entry createCompiler is called and OnceExit suspends; otherwise it
\* runs on without suspending.
Enter(p, i, context, L, h) ==
  IF context.compiler = NullCompiler
  THEN Suspend(p, i, context, L, h, "setup")
  ELSE Continue(p, i, context, L, h)

\* ----------------------------------------------------------------- actions
\* The plugin has been constructed (lines 70-82); no pass has run.
Fresh ==
  /\ disk = [f \in Files |-> 1]
  /\ now = 1
  /\ sheet \in Roots
  /\ tokens = 0
  /\ optimize \in Options
  /\ keys = {}
  /\ cache = [i \in Inputs |-> NewEntry]
  /\ nextId = 0
  /\ pc = [p \in Procs |-> "idle"]
  /\ loc = [p \in Procs |-> IdleLoc]
  /\ started = 0
  /\ hist = [i \in Inputs |-> NewHist]
  /\ last = NoPass

\* Every invocation is for the same input.
Init ==
  /\ Fresh
  /\ \E i \in Inputs : from = [p \in Procs |-> i]

\* The invocations are for two different inputs.
InitMulti ==
  /\ Fresh
  /\ from = [p \in Procs |-> IF p = 1 THEN "a" ELSE ""]

\* OnceExit is invoked (lines 94-119).  With no handle in the entry it calls
\* createCompiler and suspends; otherwise it runs on without suspending.
Start(p) ==
  /\ pc[p] = "idle"
  /\ \A q \in Procs :                            \* invocations for one input are interchangeable
        (q < p /\ from[q] = from[p]) => pc[q] # "idle"
  /\ started < MaxPasses
  /\ LET inputFile == from[p]
     IN
       LET context == Get(inputFile)
           h == [hist[inputFile] EXCEPT !.passes = @ + 1]
           L == [IdleLoc EXCEPT !.input = inputFile,
                                !.root = sheet,
                                !.startId = nextId,
                                !.passNo = h.passes,
                                !.hadHandle = (context.compiler # NullCompiler),
                                !.entryGone = (Stat(inputFile) = NoEntry),
                                !.unresolvable = (sheet.bad \/ \E f \in Range(sheet.deps) :
                                                                 Stat(f) = NoEntry),
                                !.cssBefore = context.css,
                                !.optBefore = context.optimizedCss,
                                !.before = IF last.outcome = "ok" /\ last.pass.input = inputFile
                                           THEN context ELSE NewEntry,
                                !.afterOk = (last.outcome = "ok" /\ last.pass.input = inputFile),
                                !.afterFull = (/\ last.outcome = "ok"
                                               /\ last.pass.input = inputFile
                                               /\ last.pass.strategy = "full")]
       IN /\ keys' = keys \cup {inputFile}
          /\ Enter(p, inputFile, context, L, h)
  /\ started' = started + 1
  /\ UNCHANGED <<disk, now, sheet, tokens, optimize, from>>

\* compile() resolves the next import and reports it (lines 108-110).
OnDependency(p) ==
  /\ pc[p] \in {"setup", "recreate"}
  /\ CompileReports(loc[p])
  /\ cache' = [cache EXCEPT ![loc[p].input].fullRebuildPaths =
                               Append(@, Head(loc[p].pending))]
  /\ loc' = [loc EXCEPT ![p].reported = Append(@, Head(loc[p].pending)),
                        ![p].pending = Tail(@)]
  /\ last' = NoPass
  /\ UNCHANGED <<disk, now, sheet, tokens, optimize, from, keys, nextId, pc, started, hist>>

\* The promise of createCompiler() is fulfilled: the handle is stored and
\* OnceExit runs on from line 119 or from line 193.
Resolve(p) ==
  /\ pc[p] \in {"setup", "recreate"}
  /\ CompileReturns(loc[p])
  /\ LET L == loc[p]
         i == L.input
         handle == [id |-> L.compileId, root |-> L.root, deps |-> L.reported]
         context == [cache[i] EXCEPT !.compiler = handle]
         h == IF handle.id > hist[i].staleUpTo
              THEN [hist[i] EXCEPT !.staleUpTo = 0]
              ELSE hist[i]
     IN IF pc[p] = "setup"
        THEN Continue(p, i, context, L, h)
        ELSE Complete(p, i, BuildAndEmit(context, L, h), nextId)
  /\ UNCHANGED <<disk, now, sheet, tokens, optimize, from, keys, started>>

\* The promise of createCompiler() is rejected (an import cannot be resolved,
\* or the stylesheet does not compile): OnceExit throws, the pass is over.
Reject(p) ==
  /\ pc[p] \in {"setup", "recreate"}
  /\ CompileThrows(loc[p])
  /\ LET L == loc[p]
         i == L.input
     IN Complete(p, i,
                 [ context |-> cache[i],
                   last |-> [ outcome |-> "error", failure |-> "compile", pass |-> L,
                              builtId |-> 0, built |-> NoCss, staleUpTo |-> hist[i].staleUpTo,
                              emitted |-> NoCss, ranOptimizer |-> FALSE,
                              css |-> cache[i].css, optimizedCss |-> cache[i].optimizedCss ],
                   hist |-> hist[i] ],
                 nextId)
  /\ UNCHANGED <<disk, now, sheet, tokens, optimize, from, keys, started>>

\* The world changes between passes, and only while a pass is still to come.
Watched == started < MaxPasses /\ \A p \in Procs : pc[p] = "idle"

\* The paths a pass may stat or compile() may read: the input of an
\* invocation, an import of the stylesheet, a path an entry tracks.
Looked(f) ==
  \/ \E p \in Procs : from[p] = f
  \/ f \in Range(sheet.deps)
  \/ \E i \in keys : f \in Range(cache[i].fullRebuildPaths)

\* The world changes: every created entry notes the paths.
Noted(paths) ==
  hist' = [i \in Inputs |->
             IF i \in keys
             THEN [hist[i] EXCEPT !.changed = @ \cup paths, !.stable = FALSE]
             ELSE hist[i]]

\* A file is written without a change of the stylesheet text (or touched).
Touch(f) ==
  /\ Watched
  /\ Looked(f)
  /\ now < MaxTime
  /\ now' = now + 1
  /\ disk' = [disk EXCEPT ![f] = now + 1]
  /\ Noted({f})
  /\ last' = NoPass
  /\ UNCHANGED <<sheet, tokens, optimize, from, keys, cache, nextId, pc, loc, started>>

\* A file is removed.
Delete(f) ==
  /\ Watched
  /\ Looked(f)
  /\ disk[f] # NoEntry
  /\ disk' = [disk EXCEPT ![f] = NoEntry]
  /\ Noted({f})
  /\ last' = NoPass
  /\ UNCHANGED <<now, sheet, tokens, optimize, from, keys, cache, nextId, pc, loc, started>>

\* The stylesheet gets another text: the entry point is saved, or, for an
\* input without a path, the host hands over another text.
Write(r) ==
  /\ Watched
  /\ r # sheet
  /\ sheet' = r
  /\ IF Looked("a")
     THEN /\ now < MaxTime
          /\ now' = now + 1
          /\ disk' = [disk EXCEPT !["a"] = now + 1]
          /\ Noted({"a"})
     ELSE Noted({}) /\ UNCHANGED <<now, disk>>
  /\ last' = NoPass
  /\ UNCHANGED <<tokens, optimize, from, keys, cache, nextId, pc, loc, started>>

\* The scanned sources gain or lose their candidate.
Retoken ==
  /\ Watched
  /\ tokens' = 1 - tokens
  /\ last' = NoPass
  /\ UNCHANGED <<disk, now, sheet, optimize, from, keys, cache, nextId, pc, loc, started, hist>>

World ==
  \/ \E f \in Files : Touch(f)
  \/ \E f \in Files : Delete(f)
  \/ \E r \in Roots : Write(r)
  \/ Retoken

\* Invocations may overlap: the plugin takes no lock.
Next ==
  \/ World
  \/ \E p \in Procs : Start(p)
  \/ \E p \in Procs : OnDependency(p)
  \/ \E p \in Procs : Resolve(p)
  \/ \E p \in Procs : Reject(p)

Spec == Init /\ [][Next]_vars

\* The host runs one pass at a time.
Serial == \A q \in Procs : pc[q] = "idle"

NextSeq ==
  \/ World
  \/ \E p \in Procs : Serial /\ Start(p)
  \/ \E p \in Procs : OnDependency(p)
  \/ \E p \in Procs : Resolve(p)
  \/ \E p \in Procs : Reject(p)

SpecSeq == Init /\ [][NextSeq]_vars

\* Overlapping invocations for two inputs; files change but none is removed.
NextMulti ==
  \/ \E f \in Files : Touch(f)
  \/ \E r \in Roots : Write(r)
  \/ Retoken
  \/ \E p \in Procs : Start(p)
  \/ \E p \in Procs : OnDependency(p)
  \/ \E p \in Procs : Resolve(p)
  \/ \E p \in Procs : Reject(p)

SpecMulti == InitMulti /\ [][NextMulti]_vars


\* ------------------------------------------------------------- properties
\* The passes that have run their decide step: the one that has just ended
\* and those suspended in the recreation of line 193.
Decided ==
  {r \in {last.pass} \cup {loc[p] : p \in Procs} : r.strategy # "none"}

\* C1: a pass that starts with a handle, after an existing path reported by
\* that handle (or the entry point) changed since the previous decide step,
\* chooses Full and, when it builds, builds on a handle created in this pass.
C1_ChangedPathForcesFull ==
  /\ \A r \in Decided : (r.hadHandle /\ r.trackedChanged) => r.strategy = "full"
  /\ (last.pass.hadHandle /\ last.pass.trackedChanged /\ last.builtId # 0)
        => last.builtId > last.pass.startId

\* C2: with an existing entry point and no change of any file or of the
\* stylesheet since the entry was created, every pass after the first one
\* chooses Incremental and builds on the handle it found.
C2_UnchangedIsIncremental ==
  /\ \A r \in Decided :
        (r.passNo > 1 /\ r.wasStable /\ ~r.entryMissing) => r.strategy = "incremental"
  /\ (last.pass.passNo > 1 /\ last.pass.wasStable /\ ~last.pass.entryMissing
        /\ last.builtId # 0)
        => last.builtId = last.pass.decideId /\ last.builtId <= last.pass.startId

C2_Witness ==
  /\ last.outcome = "ok"
  /\ last.pass.passNo = 3
  /\ last.pass.wasStable
  /\ ~last.pass.entryMissing
  /\ last.pass.strategy = "incremental"
  /\ cache[last.pass.input].fullRebuildPaths # << >>

\* C3: build() is never called on a handle created before the latest decide
\* step that observed a changed modification time.
C3_ChangeNeverLost ==
  last.builtId # 0 => last.builtId > last.staleUpTo

\* C4: a missing tracked path other than the entry point, with the entry point
\* present and every other tracked path at its recorded time, gives Incremental
\* and leaves the recorded times of missing paths as they were.
C4_MissingDependencyTolerated ==
  \A r \in Decided :
     (r.depMissing /\ ~r.entryMissing /\ r.othersSame)
        => r.strategy = "incremental" /\ r.mtimesKept

C4_Witness ==
  /\ last.outcome = "ok"
  /\ last.pass.depMissing /\ ~last.pass.entryMissing /\ last.pass.othersSame
  /\ last.pass.strategy = "incremental"
  /\ cache[last.pass.input].mtimes["b"] # NoEntry
  /\ disk["b"] = NoEntry

\* C5: a pass that finds no file at the entry-point path in its decide step
\* chooses Full, calls createCompiler again and, when it builds, builds on the
\* handle that call created; this holds for every such pass.
C5_MissingEntryForcesFull ==
  /\ \A r \in Decided : r.entryMissing => r.strategy = "full"
  /\ \A p \in Procs :
        (loc[p].strategy # "none" /\ loc[p].entryMissing)
           => pc[p] = "recreate" /\ loc[p].compileId > loc[p].decideId
  /\ (last.pass.strategy # "none" /\ last.pass.entryMissing /\ last.builtId # 0)
        => last.builtId > last.pass.decideId /\ last.builtId > last.pass.startId

C5_Witness ==
  /\ last.outcome = "ok"
  /\ last.pass.entryMissing
  /\ last.pass.passNo >= 2
  /\ last.pass.hadHandle
  /\ last.builtId > last.pass.decideId


C7_SameTextOneTransform ==
  \A i \in Inputs :
     (optimize = "true" /\ hist[i].okPasses = 2 /\ hist[i].allSame)
        => hist[i].optCalls = 1

\* C7 amended: with optimization on, two passes that emitted CSS from a fresh
\* entry and built the same text X have called the optimizer once when X is
\* not the empty string and never when X is the empty string; and a pass
\* whose built text equals the css it found in the entry does not call the
\* optimizer.
C7_SameNonEmptyTextOneTransform ==
  /\ \A i \in Inputs :
        (optimize = "true" /\ hist[i].okPasses = 2 /\ hist[i].allSame)
           => hist[i].optCalls = IF cache[i].css = EmptyCss THEN 0 ELSE 1
  /\ (last.outcome = "ok" /\ last.built = last.pass.cssBefore) => ~last.ranOptimizer

C7_Witness ==
  \E i \in Inputs :
     /\ optimize = "true"
     /\ hist[i].okPasses = 2 /\ hist[i].allSame
     /\ hist[i].optCalls = 1
     /\ cache[i].css # EmptyCss
     /\ last.outcome = "ok" /\ ~last.ranOptimizer

\* C8: with optimization off, every pass that emits CSS emits what its build()
\* call returned, and optimizeCss is never called.
C8_UnoptimizedOutputIsRaw ==
  optimize = "false"
     => /\ last.outcome = "ok" => last.emitted = last.built /\ ~last.ranOptimizer
        /\ \A i \in Inputs : cache[i].optimizedCss = EmptyCss

C8_Witness ==
  /\ optimize = "false"
  /\ last.outcome = "ok"
  /\ last.built # EmptyCss
  /\ last.emitted = last.built
  /\ last.pass.passNo >= 2

\* C9: css and optimizedCss of an entry change only in the step in which a
\* pass on that entry emits CSS; the step in which createCompiler or build()
\* throws ends the pass without emitting and without touching either, so a
\* pass that fails has left both as they were.
C9_FailureKeepsLastOutput ==
  [][ /\ \A i \in Inputs :
            (cache'[i].css # cache[i].css \/ cache'[i].optimizedCss # cache[i].optimizedCss)
               => (last' # last /\ last'.outcome = "ok" /\ last'.pass.input = i)
      /\ (last' # last /\ last'.outcome = "error")
            => /\ last'.failure \in {"compile", "build"}
               /\ last'.emitted = NoCss
               /\ cache'[last'.pass.input].css = last'.css
               /\ cache'[last'.pass.input].optimizedCss = last'.optimizedCss ]_vars

C9_Witness ==
  /\ last.outcome = "error"
  /\ last.failure = "compile"
  /\ last.pass.strategy = "full"
  /\ last.pass.cssBefore # EmptyCss
  /\ last.pass.optBefore # EmptyCss
  /\ cache[last.pass.input].css = last.pass.cssBefore

\* C10: two invocations for the same input are never both past the decide
\* step and before the end of the pass.
C10_PassesSerialized ==
  \A p, q \in Procs :
     (p # q /\ pc[p] = "recreate" /\ pc[q] = "recreate")
        => loc[p].input # loc[q].input

\* The step is a step of an invocation for input i.
StepOn(i) ==
  \/ \E p \in Procs : from[p] = i /\ (pc'[p] # pc[p] \/ loc'[p] # loc[p])
  \/ last'.outcome # "none" /\ last'.pass.input = i

\* The locals of the pass on input i that the step has started.
StartedPass(i) ==
  IF last'.outcome # "none" /\ last'.pass.input = i
  THEN last'.pass
  ELSE CHOOSE r \in {loc'[p] : p \in Procs} : r.input = i /\ r.passNo = hist'[i].passes

\* C11: a step of an invocation for one input leaves the entry of every other
\* input as it was, and an entry changes only in a step of an invocation for
\* its input; a key once in the map stays in it, and a pass that looks up a
\* key that is in the map gets the entry as the map holds it.
C11_EntriesIndependent ==
  [][ /\ \A i, j \in Inputs : (i # j /\ StepOn(j) /\ ~StepOn(i)) => cache'[i] = cache[i]
      /\ \A i \in Inputs : cache'[i] # cache[i] => StepOn(i)
      /\ keys \subseteq keys'
      /\ \A i \in Inputs :
            hist'[i].passes = hist[i].passes + 1
               => /\ i \in keys'
                  /\ StartedPass(i).hadHandle = (i \in keys /\ cache[i].compiler # NullCompiler)
                  /\ StartedPass(i).cssBefore = (IF i \in keys THEN cache[i].css ELSE EmptyCss)
                  /\ StartedPass(i).optBefore =
                        (IF i \in keys THEN cache[i].optimizedCss ELSE EmptyCss) ]_vars

C11_Witness ==
  /\ keys = Inputs
  /\ pc[1] = "setup" /\ pc[2] = "recreate"
  /\ cache["a"].fullRebuildPaths = <<"b">>
  /\ cache[""].fullRebuildPaths = << >>
  /\ cache[""].css # EmptyCss
  /\ cache["a"].css = EmptyCss

\* The positions of a call in the log of a pass.
At(log, call) == {k \in 1..Len(log) : log[k] = call}

\* C12: a pass that emits CSS has called scanner.scan() exactly once and
\* then build() exactly once, with the candidates that scan returned, whether
\* its strategy was Full or Incremental; a pass in which build() threw has
\* scanned once before that call.
C12_OneScanThenOneBuild ==
  /\ last.outcome = "ok"
        => /\ Cardinality(At(last.pass.log, "scan")) = 1
           /\ Cardinality(At(last.pass.log, "build")) = 1
           /\ \A k \in At(last.pass.log, "scan") :
                 \A m \in At(last.pass.log, "build") : k < m
           /\ last.pass.strategy \in {"full", "incremental"}
           /\ last.builtId # 0
           /\ last.built = Build(cache[last.pass.input].compiler, last.pass.candidates)
  /\ last.failure = "build"
        => /\ Cardinality(At(last.pass.log, "scan")) = 1
           /\ At(last.pass.log, "build") = {Len(last.pass.log)}

C12_Witness ==
  /\ last.outcome = "ok"
  /\ last.pass.strategy = "incremental"
  /\ last.pass.wasStable
  /\ last.pass.log = <<"scan", "build">>
  /\ last.built = last.pass.cssBefore
  /\ last.built # EmptyCss

\* C13 as stated: a pass that starts right after a pass on its entry emitted
\* CSS, with no change of the world in between, emits the same CSS and leaves
\* the whole entry as it found it.
C13_UnchangedWorldIdempotent ==
  (last.outcome # "none" /\ last.pass.afterOk)
     => /\ last.outcome = "ok"
        /\ last.emitted = Emitted(last.pass.before)
        /\ cache[last.pass.input] = last.pass.before

\* C13 amended: such a pass emits the same CSS without calling the optimizer
\* and leaves css, optimizedCss and fullRebuildPaths of the entry as it found
\* them; an Incremental one leaves the whole entry as it found it, a Full one
\* replaces the handle.
C13_UnchangedWorldSameOutput ==
  (last.outcome # "none" /\ last.pass.afterOk)
     => LET before == last.pass.before
            after  == cache[last.pass.input]
        IN /\ last.outcome = "ok"
           /\ last.emitted = Emitted(before)
           /\ ~last.ranOptimizer
           /\ after.css = before.css
           /\ after.optimizedCss = before.optimizedCss
           /\ after.fullRebuildPaths = before.fullRebuildPaths
           /\ last.pass.strategy = "incremental" => after = before
           /\ last.pass.strategy = "full" => after.compiler.id > before.compiler.id

C13_Witness ==
  /\ last.outcome = "ok"
  /\ last.pass.afterOk
  /\ last.pass.entryMissing
  /\ last.pass.strategy = "full"
  /\ last.emitted = Emitted(last.pass.before)
  /\ last.emitted # EmptyCss
  /\ cache[last.pass.input].compiler.id > last.pass.before.compiler.id
  /\ cache[last.pass.input].fullRebuildPaths = <<"b">>

\* C14: a Full pass that reaches build() has given the scanner the globs of
\* the handle it builds on, the one it created at line 193.
C14_FullScansWithNewHandle ==
  (last.builtId # 0 /\ last.pass.strategy = "full")
     => /\ last.pass.scanId = last.builtId
        /\ last.pass.depGlobs = {Globs(cache[last.pass.input].compiler.root)}

\* C15: with optimization on, the optimizedCss of every entry is the optimizer
\* applied to the css of the entry, in every state, and a pass that emits CSS
\* stores what build() returned and emits the optimizer applied to it.
C15_OptimizedIsOptimizerOfRaw ==
  optimize # "false"
     => /\ \A i \in Inputs : cache[i].optimizedCss = Transform(cache[i].css, Minify)
        /\ last.outcome = "ok"
              => /\ last.css = last.built
                 /\ last.optimizedCss = Transform(last.built, Minify)
                 /\ last.emitted = last.optimizedCss

C15_Witness ==
  /\ optimize = "true"
  /\ last.outcome = "ok"
  /\ last.pass.passNo = 3
  /\ ~last.pass.hadHandle
  /\ last.built # EmptyCss
  /\ last.ranOptimizer
  /\ last.emitted = Transform(last.built, TRUE)

\* C16: a pass that has called build() called it on a handle, which is the
\* handle the entry holds when the pass ends; and the entry holds a handle
\* whenever a pass on it is past line 119.
C16_BuildHasCompiler ==
  /\ At(last.pass.log, "build") # {}
        => /\ last.builtId # 0
           /\ cache[last.pass.input].compiler # NullCompiler
           /\ cache[last.pass.input].compiler.id = last.builtId
  /\ \A p \in Procs :
        loc[p].strategy # "none"
           => cache[loc[p].input].compiler # NullCompiler /\ loc[p].scanId # 0

C16_Witness ==
  /\ last.outcome = "ok"
  /\ last.pass.passNo = 3
  /\ ~last.pass.hadHandle
  /\ last.pass.log = <<"create", "scan", "create", "build">>
  /\ \E p \in Procs : pc[p] = "recreate"
  /\ cache[last.pass.input].compiler.id = last.builtId

\* C17: no pass, ended or in flight, has called createCompiler more than once.
C17_AtMostOneCreation ==
  \A r \in {last.pass} \cup {loc[p] : p \in Procs} :
     Cardinality(At(r.log, "create")) <= 1

\* C18: a pass that starts right after a Full pass on its entry emitted CSS,
\* with no change of the world in between and the entry point on disk,
\* chooses Incremental.
C18_OneChangeOneFull ==
  \A r \in Decided : (r.afterFull /\ ~r.entryMissing) => r.strategy = "incremental"

\* C19: the 'dependency' messages of a pass that emits CSS name every path
\* that the handle its build() was called on reported through onDependency.
C19_ManifestHasHandlePaths ==
  last.outcome = "ok"
     => Range(cache[last.pass.input].compiler.deps) \subseteq last.pass.depFiles

\* C20: while no pass is in flight, the fullRebuildPaths of every entry are
\* the paths reported during the creation of the handle the entry holds
\* (none when it holds no handle).
C20_PathsOfStoredHandle ==
  (\A p \in Procs : pc[p] = "idle")
     => \A i \in keys : cache[i].fullRebuildPaths = cache[i].compiler.deps

=============================================================================
